---------------------------- MODULE Spec2Model ----------------------------
(***************************************************************************)
(* A model of the family fair-allocation library:                          *)
(*   - the voting-weight recurrence balance / weight (rwav_protocol.py),    *)
(*   - the RWAV protocol allocate / choose_good / member_weight             *)
(*     (rwav_protocol.py),                                                  *)
(*   - Enhanced RWAV allocate_using_enhanced_RWAV (monotone_families.py).   *)
(*                                                                         *)
(* Goods are Python strings.  A string is modelled as a non-empty sequence  *)
(* of character codes, so the good "a" is <<1>> and the good "aa" is        *)
(* <<1, 1>>; the natural ordering of goods is the lexicographic one.        *)
(*                                                                         *)
(* Numbers.  Every number the weight engine produces for k = 2 is a dyadic  *)
(* rational, and for k = 3 it lies in Q(sqrt 2) with dyadic coefficients    *)
(* (L = 2^(1/(k-1)) = sqrt 2).  A number is the pair <<a, b>> standing for  *)
(* (a + b * sqrt 2) / Scale; arithmetic on pairs is exact.  Python computes *)
(* the k = 2 values exactly in binary floating point; the k > 2 values are  *)
(* floats that approximate the exact values modelled here.                  *)
(***************************************************************************)
EXTENDS Integers, Sequences, FiniteSets, TLC

VARIABLES
    fn, arg_r, arg_s, arg_k, ret,          \* a call of balance or weight
    families, goods, threshold,            \* the inputs of a protocol run
    pc, remaining_goods, bundles,          \* the state of the running protocol
    turn_index, family_index, last_pick,
    unscanned, trigger,                    \* Enhanced RWAV's scan of the goods
    call, first_call,                      \* two successive calls (swapped roles)
    iteration, change, todo,               \* allocate_twothirds' local search
    input                                  \* the arguments of a call of a pure function

callVars  == <<fn, arg_r, arg_s, arg_k, ret, input>>
inputVars == <<families, goods, threshold>>
runVars   == <<pc, remaining_goods, bundles, turn_index, family_index, last_pick>>
scanVars  == <<unscanned, trigger>>
swapVars  == <<call, first_call>>
searchVars == <<iteration, change, todo>>
vars      == <<callVars, inputVars, runVars, scanVars, swapVars, searchVars>>

(***************************************************************************)
(* Bounds of the model.                                                    *)
(***************************************************************************)
\* balance and weight are called with r, s in -MaxNeg .. MaxR
MaxR == 5
MaxNeg == 2
\* the characters goods are named with, hence the goods of a generated run
NumGoods == 3
\* the length of the names of the goods of a generated run
MaxNameLen == 2
\* the cardinality of a member record
MaxCard == 2
\* the member records of all the families of a generated run together
MaxRecords == 3
MaxEnhancedRecords == 4
\* the goods of a generated run of allocate_twothirds on two identical families
MaxSearchGoods == 4
\* the values of a generated valuation are 0 .. MaxValue
MaxValue == 2
\* value_except_*_c_goods and is_PROPc are called with c in 0 .. MaxExcept
MaxExcept == 3
\* is_PROPc is called with num_of_agents in 1 .. MaxAgents
MaxAgents == 3
\* partitions is called on collections of at most MaxElements elements
MaxElements == 4
\* thresholds are the multiples of 1 / ThresholdDen in [0, 1]
ThresholdDen == 2

(***************************************************************************)
(* Exact numbers: <<a, b>> is (a + b * sqrt 2) / Scale.                    *)
(***************************************************************************)
RECURSIVE Pow2(_)
Pow2(n) == IF n <= 0 THEN 1 ELSE 2 * Pow2(n - 1)

Scale == Pow2(MaxR + NumGoods + 4)

Zero == <<0, 0>>
One  == <<Scale, 0>>

NAdd(x, y) == <<x[1] + y[1], x[2] + y[2]>>
NSub(x, y) == <<x[1] - y[1], x[2] - y[2]>>
NMul(c, x) == <<c * x[1], c * x[2]>>
NHalf(x)   == <<x[1] \div 2, x[2] \div 2>>

\* the sign of a + b * sqrt 2, by comparing a^2 with 2 b^2 when the signs differ
NSign(x) ==
    LET a == x[1]
        b == x[2]
    IN  IF a >= 0 /\ b >= 0 THEN (IF a = 0 /\ b = 0 THEN 0 ELSE 1)
        ELSE IF a <= 0 /\ b <= 0 THEN -1
        ELSE IF a > 0 THEN (IF a * a > 2 * b * b THEN 1 ELSE -1)
        ELSE (IF 2 * b * b > a * a THEN 1 ELSE -1)

NLess(x, y) == NSign(NSub(y, x)) = 1
NLeq(x, y)  == NSign(NSub(y, x)) >= 0
NMin(x, y)  == IF NLess(y, x) THEN y ELSE x

\* 1 / math.pow(L, r) for L = 2^(1/(k-1)), k = 3, r >= 0:
\* 2^(-r/2) is 2^(-r/2) for even r and sqrt 2 * 2^(-(r+1)/2) for odd r
InvPowL(r) ==
    IF r % 2 = 0 THEN <<Scale \div Pow2(r \div 2), 0>>
    ELSE <<0, Scale \div Pow2((r + 1) \div 2)>>

(***************************************************************************)
(* The voting-weight engine.  A call returns a number or raises.           *)
(***************************************************************************)
Return(v) == [err |-> "none", val |-> v]
Raise(e)  == [err |-> e, val |-> Zero]

\* the family counts the model runs: 1 (k < 2), 2, and 3 (standing for k > 2)
FamilyCounts == 1 .. 3

\* mutant: the two balances of val1 are subtracted instead of added
RECURSIVE balance_minus(_, _, _)
balance_minus(r, s, k) ==
    IF s <= 0 THEN Return(One)
    ELSE IF s > r THEN Return(Zero)
    ELSE IF k = 2 THEN
        LET val1 == NHalf(NSub(balance_minus(r - 1, s, 2).val,
                               balance_minus(r - 1, s - 1, 2).val))
            val2 == balance_minus(r - 2, s - 1, 2).val
        IN  Return(NMin(val1, val2))
    ELSE IF k > 2 THEN
        IF s > 1 THEN Raise("ValueError")
        ELSE Return(NSub(One, InvPowL(r)))
    ELSE Raise("AttributeError")

\* mutant: val2 looks one good back instead of two (balance(r-1, s-1))
RECURSIVE balance_one_back(_, _, _)
balance_one_back(r, s, k) ==
    IF s <= 0 THEN Return(One)
    ELSE IF s > r THEN Return(Zero)
    ELSE IF k = 2 THEN
        LET val1 == NHalf(NAdd(balance_one_back(r - 1, s, 2).val,
                               balance_one_back(r - 1, s - 1, 2).val))
            val2 == balance_one_back(r - 1, s - 1, 2).val
        IN  Return(NMin(val1, val2))
    ELSE IF k > 2 THEN
        IF s > 1 THEN Raise("ValueError")
        ELSE Return(NSub(One, InvPowL(r)))
    ELSE Raise("AttributeError")

\* mutant: for k > 2 the s = 1 formula is used for every s, nothing is raised
RECURSIVE balance_never_raises(_, _, _)
balance_never_raises(r, s, k) ==
    IF s <= 0 THEN Return(One)
    ELSE IF s > r THEN Return(Zero)
    ELSE IF k = 2 THEN
        LET val1 == NHalf(NAdd(balance_never_raises(r - 1, s, 2).val,
                               balance_never_raises(r - 1, s - 1, 2).val))
            val2 == balance_never_raises(r - 2, s - 1, 2).val
        IN  Return(NMin(val1, val2))
    ELSE IF k > 2 THEN Return(NSub(One, InvPowL(r)))
    ELSE Raise("AttributeError")

RECURSIVE balance(_, _, _)
balance(r, s, k) ==
    IF s <= 0 THEN Return(One)
    ELSE IF s > r THEN Return(Zero)
    ELSE IF k = 2 THEN
        LET val1 == NHalf(NAdd(balance(r - 1, s, 2).val, balance(r - 1, s - 1, 2).val))
            val2 == balance(r - 2, s - 1, 2).val
        IN  Return(NMin(val1, val2))
    ELSE IF k > 2 THEN
        IF s > 1 THEN Raise("ValueError")
        ELSE Return(NSub(One, InvPowL(r)))
    \* raise(ValueError(...).format(...)): ValueError has no attribute format
    ELSE Raise("AttributeError")

\* mutant: the two balances are subtracted the other way round
weight_reversed(r, s, k) ==
    LET b1 == balance(r, s, k)
        b2 == balance(r - 1, s, k)
    IN  IF b1.err # "none" THEN b1
        ELSE IF b2.err # "none" THEN b2
        ELSE Return(NSub(b2.val, b1.val))

weight(r, s, k) ==
    LET b1 == balance(r, s, k)
        b2 == balance(r - 1, s, k)
    IN  IF b1.err # "none" THEN b1
        ELSE IF b2.err # "none" THEN b2
        ELSE Return(NSub(b1.val, b2.val))

(***************************************************************************)
(* Goods, bundles and binary agents.                                       *)
(***************************************************************************)
\* the good named by the character c repeated len times
Name(c, len) == [i \in 1 .. len |-> c]

\* the goods named with the first n characters, with names of length len
GoodsOf(n, len) == { Name(c, len) : c \in 1 .. n }

\* Python's ordering of strings
GoodLess(g, h) ==
    \E i \in 1 .. Len(h) :
        /\ \A j \in 1 .. (i - 1) : j <= Len(g) /\ g[j] = h[j]
        /\ (i > Len(g) \/ g[i] < h[i])

\* set(g) for a string g: the set of its characters, each a one-character string
PySet(g) == { <<g[i]>> : i \in 1 .. Len(g) }

\* BinaryAgent(desired_goods, cardinality)
BinaryAgent(desired, card) == [desired_goods |-> desired, cardinality |-> card]

\* BinaryAgent.total_value, set by the constructor
total_value(member) == Cardinality(member.desired_goods)

\* BinaryAgent.value for a bundle that is a set of goods
value(member, bundle) == Cardinality(member.desired_goods \cap bundle)

\* the 1-of-best-2 criterion: target 1 for a member who desires at least 2 goods
target_value_for_binary(total) == IF total >= 2 THEN 1 ELSE 0

\* member.target_value, as allocate sets it before the first turn
target_value(member) == target_value_for_binary(total_value(member))

(***************************************************************************)
(* RWAV: member_weight, choose_good.  A family is the sequence of its       *)
(* member records.                                                          *)
(***************************************************************************)
member_weight(member, target, owned_goods, remaining, k) ==
    LET member_remaining_value  == value(member, remaining)
        member_current_value    == value(member, owned_goods)
        member_should_get_value == target - member_current_value
    IN  weight(member_remaining_value, member_should_get_value, k)

\* choose_good raises when the weight of one of the members raises
choose_good_raises(family, owned_goods, remaining, k) ==
    \E i \in 1 .. Len(family) :
        member_weight(family[i], target_value(family[i]), owned_goods, remaining, k).err # "none"

\* map_good_to_total_weight[good] once the first n members have been added
RECURSIVE total_weight_upto(_, _, _, _, _, _)
total_weight_upto(family, owned_goods, remaining, k, good, n) ==
    IF n = 0 THEN Zero
    ELSE LET member == family[n]
             rest   == total_weight_upto(family, owned_goods, remaining, k, good, n - 1)
             w      == member_weight(member, target_value(member), owned_goods, remaining, k)
         IN  IF good \in member.desired_goods
             THEN NAdd(rest, NMul(member.cardinality, w.val))
             ELSE rest

\* mutant: every member record counts as one vote, whatever its cardinality
RECURSIVE total_weight_one_vote(_, _, _, _, _, _)
total_weight_one_vote(family, owned_goods, remaining, k, good, n) ==
    IF n = 0 THEN Zero
    ELSE LET member == family[n]
             rest   == total_weight_one_vote(family, owned_goods, remaining, k, good, n - 1)
             w      == member_weight(member, target_value(member), owned_goods, remaining, k)
         IN  IF good \in member.desired_goods THEN NAdd(rest, w.val) ELSE rest

map_good_to_total_weight_one_vote(family, owned_goods, remaining, k, good) ==
    total_weight_one_vote(family, owned_goods, remaining, k, good, Len(family))

map_good_to_total_weight(family, owned_goods, remaining, k, good) ==
    total_weight_upto(family, owned_goods, remaining, k, good, Len(family))

\* the order of the keys (-map_good_to_total_weight[good], good)
KeyLess(family, owned_goods, remaining, k, g, h) ==
    LET wg == map_good_to_total_weight(family, owned_goods, remaining, k, g)
        wh == map_good_to_total_weight(family, owned_goods, remaining, k, h)
    IN  NLess(wh, wg) \/ (wg = wh /\ GoodLess(g, h))

\* mutant: ties between goods of equal weight go to the largest good
choose_good_last_of_ties(family, owned_goods, remaining, k) ==
    CHOOSE g \in remaining :
        \A h \in remaining \ {g} :
            LET wg == map_good_to_total_weight(family, owned_goods, remaining, k, g)
                wh == map_good_to_total_weight(family, owned_goods, remaining, k, h)
            IN  NLess(wh, wg) \/ (wg = wh /\ GoodLess(h, g))

\* min(remaining_goods, key = ...), for a non-empty set of remaining goods
choose_good(family, owned_goods, remaining, k) ==
    CHOOSE g \in remaining :
        \A h \in remaining \ {g} : KeyLess(family, owned_goods, remaining, k, g, h)

(***************************************************************************)
(* The inputs of the generated runs.  Within a family the member records    *)
(* have distinct desired sets, listed in one fixed order: the accumulated   *)
(* weight of a good is a sum over the members, so neither the order of the  *)
(* records nor the split of equal members into records changes it.          *)
(***************************************************************************)
RECURSIVE SetCode(_)
SetCode(S) ==
    IF S = {} THEN 0
    ELSE LET g == CHOOSE x \in S : TRUE
         IN  Pow2(g[1]) + SetCode(S \ {g})

MemberRecords(G) ==
    { BinaryAgent(d, c) : d \in (SUBSET G) \ {{}}, c \in 1 .. MaxCard }

FamiliesOfSize(G, m) ==
    { f \in [1 .. m -> MemberRecords(G)] :
        \A i \in 1 .. (m - 1) :
            SetCode(f[i].desired_goods) < SetCode(f[i + 1].desired_goods) }

\* the lists of n families over the goods G with at most budget records in all
RECURSIVE FamilyLists(_, _, _)
FamilyLists(G, n, budget) ==
    IF n = 0 THEN { <<>> }
    ELSE UNION { { <<f>> \o rest : f \in FamiliesOfSize(G, m),
                                   rest \in FamilyLists(G, n - 1, budget - m) } :
                 m \in 0 .. budget }

\* the goods of the doctests: the one-character strings "v" .. "z"
Gv == <<22>>
Gw == <<23>>
Gx == <<24>>
Gy == <<25>>
Gz == <<26>>

\* the goods and families of the doctest of allocate
DocGoods == { Gw, Gx, Gy, Gz }
DocFamily1 ==
    << BinaryAgent({Gw, Gx}, 1), BinaryAgent({Gx, Gy}, 2),
       BinaryAgent({Gy, Gz}, 3), BinaryAgent({Gz, Gw}, 4) >>
DocFamily2 ==
    << BinaryAgent({Gw, Gz}, 2), BinaryAgent({Gz, Gy}, 3) >>

\* the goods, families and threshold of the doctest of allocate_using_enhanced_RWAV
DocEnhancedGoods == { Gv, Gw, Gx, Gy, Gz }
DocEnhancedFamily1 ==
    << BinaryAgent({Gw, Gx}, 1), BinaryAgent({Gx, Gy}, 3),
       BinaryAgent({Gy, Gz}, 3), BinaryAgent({Gw, Gv}, 3) >>
DocEnhancedFamily2 ==
    << BinaryAgent({Gw, Gx}, 5), BinaryAgent({Gy, Gz}, 5) >>
DocThreshold == <<3, 5>>

(***************************************************************************)
(* Idle values of the variables a specification does not use.              *)
(***************************************************************************)
NoPick == [good |-> <<>>, family_index |-> 0, owned |-> {}, remaining |-> {}, k |-> 0]
NoGood == <<>>
NoCall == [pc |-> "none", bundles |-> <<>>, trigger |-> NoGood, turn_index |-> 0]

NoInput == <<>>
IdleCall ==
    /\ fn = "none" /\ arg_r = 0 /\ arg_s = 0 /\ arg_k = 0 /\ ret = Return(Zero)
    /\ input = NoInput
IdleSearch == iteration = 0 /\ change = FALSE /\ todo = {}
IdleScan == unscanned = {} /\ trigger = NoGood
IdleSwap == call = 0 /\ first_call = NoCall
IdleRun ==
    /\ families = <<>> /\ goods = {} /\ threshold = <<0, 1>>
    /\ pc = "idle" /\ remaining_goods = {} /\ bundles = <<>>
    /\ turn_index = 0 /\ family_index = 0 /\ last_pick = NoPick

(***************************************************************************)
(* RWAV: allocate(families, goods), one action per turn of the loop.       *)
(***************************************************************************)
\* the state of allocate when the loop is first reached
StartRWAV ==
    /\ pc = "loop"
    /\ remaining_goods = goods
    /\ bundles = [i \in 1 .. Len(families) |-> {}]
    /\ turn_index = 0
    /\ family_index = 0
    /\ last_pick = NoPick

InitRWAV ==
    /\ IdleCall /\ IdleScan /\ IdleSwap /\ IdleSearch
    /\ threshold = <<0, 1>>
    /\ \/ \E n \in FamilyCounts, m \in 0 .. NumGoods :
            /\ goods = GoodsOf(m, 1)
            /\ families \in FamilyLists(goods, n, MaxRecords)
       \/ goods = DocGoods /\ families = <<DocFamily1, DocFamily2>>
    /\ StartRWAV

\* mutant: the picked good is added to the bundle and stays in remaining_goods
Turn_keeps_good ==
    /\ pc = "loop"
    /\ remaining_goods # {}
    /\ turn_index < NumGoods + 2
    /\ LET num_of_families       == Len(families)
           current_family        == families[family_index + 1]
           current_family_bundle == bundles[family_index + 1]
       IN  /\ ~ choose_good_raises(current_family, current_family_bundle,
                                   remaining_goods, num_of_families)
           /\ LET g == choose_good(current_family, current_family_bundle,
                                   remaining_goods, num_of_families)
              IN  /\ bundles' = [bundles EXCEPT ![family_index + 1] = @ \cup {g}]
                  /\ last_pick' = [good |-> g, family_index |-> family_index,
                                   owned |-> current_family_bundle,
                                   remaining |-> remaining_goods,
                                   k |-> num_of_families]
           /\ turn_index' = turn_index + 1
           /\ family_index' = (family_index + 1) % num_of_families
    /\ UNCHANGED <<remaining_goods, pc, callVars, searchVars, inputVars, scanVars, swapVars>>

\* mutant: the round-robin pointer does not advance
Turn_same_family ==
    /\ pc = "loop"
    /\ remaining_goods # {}
    /\ LET num_of_families       == Len(families)
           current_family        == families[family_index + 1]
           current_family_bundle == bundles[family_index + 1]
       IN  /\ ~ choose_good_raises(current_family, current_family_bundle,
                                   remaining_goods, num_of_families)
           /\ LET g == choose_good(current_family, current_family_bundle,
                                   remaining_goods, num_of_families)
              IN  /\ bundles' = [bundles EXCEPT ![family_index + 1] = @ \cup {g}]
                  /\ remaining_goods' = remaining_goods \ {g}
                  /\ last_pick' = [good |-> g, family_index |-> family_index,
                                   owned |-> current_family_bundle,
                                   remaining |-> remaining_goods,
                                   k |-> num_of_families]
           /\ turn_index' = turn_index + 1
           /\ family_index' = family_index
    /\ UNCHANGED <<pc, callVars, searchVars, inputVars, scanVars, swapVars>>

\* one pass of the loop body in which choose_good returns
Turn ==
    /\ pc = "loop"
    /\ remaining_goods # {}
    /\ LET num_of_families       == Len(families)
           current_family        == families[family_index + 1]
           current_family_bundle == bundles[family_index + 1]
       IN  /\ ~ choose_good_raises(current_family, current_family_bundle,
                                   remaining_goods, num_of_families)
           /\ LET g == choose_good(current_family, current_family_bundle,
                                   remaining_goods, num_of_families)
              IN  /\ bundles' = [bundles EXCEPT ![family_index + 1] = @ \cup {g}]
                  /\ remaining_goods' = remaining_goods \ {g}
                  /\ last_pick' = [good |-> g, family_index |-> family_index,
                                   owned |-> current_family_bundle,
                                   remaining |-> remaining_goods,
                                   k |-> num_of_families]
           /\ turn_index' = turn_index + 1
           /\ family_index' = (family_index + 1) % num_of_families
    /\ UNCHANGED <<pc, callVars, searchVars, inputVars, scanVars, swapVars>>

\* a pass of the loop body in which choose_good raises: the exception leaves allocate
TurnRaises ==
    /\ pc = "loop"
    /\ remaining_goods # {}
    /\ choose_good_raises(families[family_index + 1], bundles[family_index + 1],
                          remaining_goods, Len(families))
    /\ pc' = "error"
    /\ UNCHANGED <<remaining_goods, bundles, turn_index, family_index, last_pick>>
    /\ UNCHANGED <<callVars, searchVars, inputVars, scanVars, swapVars>>

\* mutant: the loop stops while one good remains (while len(remaining_goods) > 1)
ReturnBundles_one_left ==
    /\ pc = "loop"
    /\ Cardinality(remaining_goods) <= 1
    /\ pc' = "done"
    /\ UNCHANGED <<remaining_goods, bundles, turn_index, family_index, last_pick>>
    /\ UNCHANGED <<callVars, searchVars, inputVars, scanVars, swapVars>>

\* the loop condition fails: return bundles
ReturnBundles ==
    /\ pc = "loop"
    /\ remaining_goods = {}
    /\ pc' = "done"
    /\ UNCHANGED <<remaining_goods, bundles, turn_index, family_index, last_pick>>
    /\ UNCHANGED <<callVars, searchVars, inputVars, scanVars, swapVars>>

Init == InitRWAV
Next == Turn \/ TurnRaises \/ ReturnBundles
Spec == Init /\ [][Next]_vars

(***************************************************************************)
(* Claims about RWAV, checked under Spec.                                  *)
(***************************************************************************)
BundleIndices == 1 .. Len(bundles)

\* C1: in every state of a run of allocate, remaining_goods and the bundles are
\* pairwise disjoint and their union is the input goods set; so are the
\* returned bundles.
C1_GoodsPartitioned ==
    /\ remaining_goods \cup UNION { bundles[i] : i \in BundleIndices } = goods
    /\ \A i \in BundleIndices : bundles[i] \cap remaining_goods = {}
    /\ \A i, j \in BundleIndices : i # j => bundles[i] \cap bundles[j] = {}
    /\ pc = "done" => UNION { bundles[i] : i \in BundleIndices } = goods

C1_Witness ==
    /\ pc = "done"
    /\ Len(families) = 2
    /\ Cardinality(goods) = NumGoods
    /\ \A i \in BundleIndices : bundles[i] # {} /\ families[i] # <<>>

RECURSIVE ClaimedWeightOver(_, _, _, _, _, _)
ClaimedWeightOver(family, owned, remaining, k, good, members) ==
    IF members = {} THEN Zero
    ELSE LET i == CHOOSE x \in members : TRUE
             w == weight(value(family[i], remaining),
                         target_value(family[i]) - value(family[i], owned), k)
         IN  NAdd(NMul(family[i].cardinality, w.val),
                  ClaimedWeightOver(family, owned, remaining, k, good, members \ {i}))

ClaimedWeight(family, owned, remaining, k, good) ==
    ClaimedWeightOver(family, owned, remaining, k, good,
                      { i \in 1 .. Len(family) : good \in family[i].desired_goods })

PickedWeight(good) ==
    ClaimedWeight(families[last_pick.family_index + 1], last_pick.owned,
                  last_pick.remaining, last_pick.k, good)

\* C3: the good choose_good returned is a remaining good of maximal accumulated
\* weight, and the smallest such good in the goods' natural order.
C3_ChooseGoodMaximal ==
    last_pick.k # 0 =>
        /\ last_pick.good \in last_pick.remaining
        /\ \A h \in last_pick.remaining :
              /\ NLeq(PickedWeight(h), PickedWeight(last_pick.good))
              /\ PickedWeight(h) = PickedWeight(last_pick.good)
                    => (h = last_pick.good \/ GoodLess(last_pick.good, h))

\* a pick among three goods: one tied with the picked good, one of less weight
C3_Witness ==
    /\ last_pick.k = 2
    /\ NSign(PickedWeight(last_pick.good)) = 1
    /\ \E h \in last_pick.remaining :
          h # last_pick.good /\ PickedWeight(h) = PickedWeight(last_pick.good)
    /\ \E h \in last_pick.remaining :
          NLess(PickedWeight(h), PickedWeight(last_pick.good))

DocRun == goods = DocGoods /\ families = <<DocFamily1, DocFamily2>>

\* C4: on the doctest's families, family1 moving first, allocate returns
\* bundle1 = {x, z} and bundle2 = {w, y}.
C4_DoctestAllocation ==
    (DocRun /\ pc = "done") => bundles = << {Gx, Gz}, {Gw, Gy} >>

C4_Witness == DocRun /\ pc = "done" /\ turn_index = 4

\* ceil((m - i) / n), for n > 0
CeilDiv(a, n) == (a + n - 1) \div n

\* C18: each turn moves one good from remaining_goods into the bundle of
\* families[turn_index mod n] and leaves the other bundles unchanged; the
\* returned bundle of family i (from 0) has ceil((|goods| - i) / n) goods, so
\* the sizes of the returned bundles differ by at most one.
C18_RoundRobinTurns ==
    /\ [] ( /\ pc = "loop" => family_index = turn_index % Len(families)
            /\ pc = "done" =>
                 /\ \A i \in BundleIndices :
                       Cardinality(bundles[i])
                          = CeilDiv(Cardinality(goods) - (i - 1), Len(families))
                 /\ \A i, j \in BundleIndices :
                       Cardinality(bundles[i]) - Cardinality(bundles[j]) <= 1 )
    /\ [][ (turn_index' # turn_index \/ bundles' # bundles
             \/ remaining_goods' # remaining_goods) =>
              /\ turn_index' = turn_index + 1
              /\ \E g \in remaining_goods :
                    /\ remaining_goods' = remaining_goods \ {g}
                    /\ bundles' = [bundles EXCEPT
                                     ![(turn_index % Len(families)) + 1] = @ \cup {g}]
         ]_vars

\* a returned allocation of three goods to two families: two goods and one
C18_Witness ==
    /\ pc = "done"
    /\ Len(families) = 2
    /\ turn_index = 3
    /\ Cardinality(bundles[1]) = 2
    /\ Cardinality(bundles[2]) = 1
    /\ \A i \in 1 .. 2 : families[i] # <<>>

(***************************************************************************)
(* Calls of balance(r, s, k) and weight(r, s, k) on arbitrary arguments.   *)
(***************************************************************************)
InitBalance ==
    /\ IdleRun /\ IdleScan /\ IdleSwap /\ IdleSearch
    /\ input = NoInput
    /\ fn = "pending"
    /\ arg_r \in (0 - MaxNeg) .. MaxR
    /\ arg_s \in (0 - MaxNeg) .. MaxR
    /\ arg_k \in FamilyCounts
    /\ ret = Return(Zero)

CallBalance ==
    /\ fn = "pending"
    /\ fn' = "balance"
    /\ ret' = balance(arg_r, arg_s, arg_k)
    /\ UNCHANGED <<arg_r, arg_s, arg_k, input, inputVars, runVars, scanVars, swapVars, searchVars>>

CallWeight ==
    /\ fn = "pending"
    /\ fn' = "weight"
    /\ ret' = weight(arg_r, arg_s, arg_k)
    /\ UNCHANGED <<arg_r, arg_s, arg_k, input, inputVars, runVars, scanVars, swapVars, searchVars>>

NextBalance == CallBalance \/ CallWeight
SpecBalance == InitBalance /\ [][NextBalance]_vars

Returned(f, r, s, k) == fn = f /\ arg_r = r /\ arg_s = s /\ arg_k = k

\* C8: for k = 2 and r, s >= 0, balance(r, s) is a number in [0, 1].
C8_BalanceInUnitInterval ==
    (fn = "balance" /\ arg_k = 2 /\ arg_r >= 0 /\ arg_s >= 0) =>
        /\ ret.err = "none"
        /\ NLeq(Zero, ret.val)
        /\ NLeq(ret.val, One)

\* a balance strictly between 0 and 1
C8_Witness ==
    /\ fn = "balance" /\ arg_k = 2 /\ arg_r >= 0 /\ arg_s >= 0
    /\ NLess(Zero, ret.val) /\ NLess(ret.val, One)

\* the reference recurrence of the specification, in units of 1 / Scale
RECURSIVE RefBalance(_, _)
RefBalance(r, s) ==
    IF s <= 0 THEN Scale
    ELSE IF s > r THEN 0
    ELSE LET avg  == (RefBalance(r - 1, s) + RefBalance(r - 1, s - 1)) \div 2
             back == RefBalance(r - 2, s - 1)
         IN  IF avg < back THEN avg ELSE back

\* C9: for k = 2 and all integers r, s, balance(r, s) is the reference
\* recurrence and weight(r, s) = balance(r, s) - balance(r-1, s); balance(0,0) = 1,
\* balance(1,1) = 1/2, balance(1,0) = 1, balance(0,1) = 0, balance(3,2) = 3/8,
\* weight(1,1) = 1/2, weight(4,2) = 1/4, weight(4,3) = 0, and weight(r, s) = 0
\* whenever s <= 0.
C9_BalanceIsTheRecurrence ==
    /\ (fn = "balance" /\ arg_k = 2) =>
          ret = Return(<<RefBalance(arg_r, arg_s), 0>>)
    /\ (fn = "weight" /\ arg_k = 2) =>
          /\ ret = Return(<<RefBalance(arg_r, arg_s) - RefBalance(arg_r - 1, arg_s), 0>>)
          /\ arg_s <= 0 => ret.val = Zero
    /\ Returned("balance", 0, 0, 2) => ret.val = One
    /\ Returned("balance", 1, 1, 2) => ret.val = <<Scale \div 2, 0>>
    /\ Returned("balance", 1, 0, 2) => ret.val = One
    /\ Returned("balance", 0, 1, 2) => ret.val = Zero
    /\ Returned("balance", 3, 2, 2) => ret.val = <<3 * (Scale \div 8), 0>>
    /\ Returned("weight", 1, 1, 2) => ret.val = <<Scale \div 2, 0>>
    /\ Returned("weight", 4, 2, 2) => ret.val = <<Scale \div 4, 0>>
    /\ Returned("weight", 4, 3, 2) => ret.val = Zero

C9_Witness == Returned("weight", 4, 2, 2) /\ ret.val = <<Scale \div 4, 0>>

\* C10, as claimed: balance(r, s, k) with k > 2 and s > 1 raises for every r.
C10_AlwaysRaises ==
    (fn = "balance" /\ arg_k > 2 /\ arg_s > 1) => ret.err # "none"

\* C10, amended: balance(r, s, k) with k > 2 and s > 1 raises ValueError when
\* r >= s; when r < s it returns 0.
C10_RaisesWhenReachable ==
    (fn = "balance" /\ arg_k > 2 /\ arg_s > 1) =>
        /\ arg_r >= arg_s => ret.err = "ValueError"
        /\ arg_r < arg_s => ret = Return(Zero)

C10_Witness ==
    fn = "balance" /\ arg_k > 2 /\ arg_s > 1 /\ arg_r > arg_s /\ ret.err = "ValueError"

\* C21: for k = 2, balance(r, s) does not decrease when r grows and does not
\* increase when s grows, and weight(r, s) is a number in [0, 1]: no vote
\* weight is negative.
C21_BalanceMonotoneWeightInUnitInterval ==
    /\ (fn = "balance" /\ arg_k = 2) =>
          /\ ret.err = "none"
          /\ NLeq(ret.val, balance(arg_r + 1, arg_s, 2).val)
          /\ NLeq(balance(arg_r, arg_s + 1, 2).val, ret.val)
    /\ (fn = "weight" /\ arg_k = 2) =>
          /\ ret.err = "none"
          /\ NLeq(Zero, ret.val)
          /\ NLeq(ret.val, One)

\* a balance strictly between its two neighbours, for a member who needs two goods
C21_Witness ==
    /\ fn = "balance" /\ arg_k = 2 /\ arg_s >= 2
    /\ NLess(ret.val, balance(arg_r + 1, arg_s, 2).val)
    /\ NLess(balance(arg_r, arg_s + 1, 2).val, ret.val)
    /\ NLess(Zero, weight(arg_r, arg_s, 2).val)

(***************************************************************************)
(* Enhanced RWAV: allocate_using_enhanced_RWAV(families, goods, threshold). *)
(* The threshold is the fraction <<numerator, denominator>>.  The model     *)
(* compares exactly; Python multiplies in floating point, which is exact    *)
(* for the thresholds of the generated runs and gives 6.0 for 0.6 * 10.     *)
(* The for loop visits the goods of a set: the order is any order.          *)
(***************************************************************************)
RECURSIVE CardinalitySum(_, _)
CardinalitySum(family, members) ==
    IF members = {} THEN 0
    ELSE LET i == CHOOSE x \in members : TRUE
         IN  family[i].cardinality + CardinalitySum(family, members \ {i})

\* Family.num_of_members()
num_of_members(family) == CardinalitySum(family, 1 .. Len(family))

\* Family.num_of_members_who_want(g)
num_of_members_who_want(family, g) ==
    CardinalitySum(family, { i \in 1 .. Len(family) : g \in family[i].desired_goods })

\* mutant: the count is compared with the threshold itself, not with
\* threshold * num_of_members
Reaches_fraction(family, g) ==
    num_of_members_who_want(family, g) * threshold[2] >= threshold[1]

\* nums[i] >= thresholds[i], where thresholds[i] = threshold * num_of_members
Reaches(family, g) ==
    num_of_members_who_want(family, g) * threshold[2]
        >= threshold[1] * num_of_members(family)

\* plain RWAV as a function of its arguments: the loop of allocate, for
\* families whose choose_good does not raise
RECURSIVE allocate_loop(_, _, _, _)
allocate_loop(fams, remaining, bs, index) ==
    IF remaining = {} THEN bs
    ELSE LET g == choose_good(fams[index + 1], bs[index + 1], remaining, Len(fams))
         IN  allocate_loop(fams, remaining \ {g},
                           [bs EXCEPT ![index + 1] = @ \cup {g}],
                           (index + 1) % Len(fams))

allocate(fams, G) == allocate_loop(fams, G, [i \in 1 .. Len(fams) |-> {}], 0)

\* the state of allocate_using_enhanced_RWAV when the for loop is first reached
StartEnhanced ==
    /\ pc = "scan"
    /\ bundles = << {}, {} >>
    /\ unscanned = goods
    /\ trigger = NoGood
    /\ remaining_goods = {}
    /\ turn_index = 0
    /\ family_index = 0
    /\ last_pick = NoPick

InitEnhanced ==
    /\ IdleCall /\ IdleSearch
    /\ call = 1 /\ first_call = NoCall
    /\ \/ \E m \in 0 .. NumGoods, len \in 1 .. MaxNameLen, t \in 0 .. ThresholdDen :
            /\ goods = GoodsOf(m, len)
            /\ families \in FamilyLists(goods, 2, MaxEnhancedRecords)
            /\ threshold = <<t, ThresholdDen>>
       \/ /\ goods = DocEnhancedGoods
          /\ families = <<DocEnhancedFamily1, DocEnhancedFamily2>>
          /\ threshold = DocThreshold
    /\ StartEnhanced

\* the loop body for g when nums[0] >= thresholds[0]: family 1 gets set(g)
ScanFirstFamily(g) ==
    /\ pc = "scan"
    /\ g \in unscanned
    /\ Reaches(families[1], g)
    /\ bundles' = << PySet(g), goods \ PySet(g) >>
    /\ trigger' = g
    /\ pc' = "done"
    /\ UNCHANGED <<unscanned, remaining_goods, turn_index, family_index, last_pick>>
    /\ UNCHANGED <<callVars, searchVars, inputVars, swapVars>>

\* mutant: the second branch returns the two bundles in the order it built them
ScanSecondFamily_swapped(g) ==
    /\ pc = "scan"
    /\ g \in unscanned
    /\ ~ Reaches(families[1], g)
    /\ Reaches(families[2], g)
    /\ bundles' = << PySet(g), goods \ PySet(g) >>
    /\ trigger' = g
    /\ pc' = "done"
    /\ UNCHANGED <<unscanned, remaining_goods, turn_index, family_index, last_pick>>
    /\ UNCHANGED <<callVars, searchVars, inputVars, swapVars>>

\* the loop body for g when only nums[1] >= thresholds[1]: family 2 gets set(g)
ScanSecondFamily(g) ==
    /\ pc = "scan"
    /\ g \in unscanned
    /\ ~ Reaches(families[1], g)
    /\ Reaches(families[2], g)
    /\ bundles' = << goods \ PySet(g), PySet(g) >>
    /\ trigger' = g
    /\ pc' = "done"
    /\ UNCHANGED <<unscanned, remaining_goods, turn_index, family_index, last_pick>>
    /\ UNCHANGED <<callVars, searchVars, inputVars, swapVars>>

\* the loop body for g when neither count reaches its threshold
ScanNext(g) ==
    /\ pc = "scan"
    /\ g \in unscanned
    /\ ~ Reaches(families[1], g)
    /\ ~ Reaches(families[2], g)
    /\ unscanned' = unscanned \ {g}
    /\ UNCHANGED <<trigger, runVars, callVars, searchVars, inputVars, swapVars>>

\* the for loop is over: return allocate_using_RWAV(families, goods)
Fallback ==
    /\ pc = "scan"
    /\ unscanned = {}
    /\ pc' = "loop"
    /\ remaining_goods' = goods
    /\ bundles' = [i \in 1 .. Len(families) |-> {}]
    /\ turn_index' = 0
    /\ family_index' = 0
    /\ last_pick' = NoPick
    /\ UNCHANGED <<scanVars, callVars, searchVars, inputVars, swapVars>>

\* the caller calls again with the two families in the other order
SecondCall ==
    /\ call = 1
    /\ pc = "done"
    /\ call' = 2
    /\ first_call' = [pc |-> pc, bundles |-> bundles, trigger |-> trigger,
                      turn_index |-> turn_index]
    /\ families' = << families[2], families[1] >>
    /\ pc' = "scan"
    /\ bundles' = << {}, {} >>
    /\ unscanned' = goods
    /\ trigger' = NoGood
    /\ remaining_goods' = {}
    /\ turn_index' = 0
    /\ family_index' = 0
    /\ last_pick' = NoPick
    /\ UNCHANGED <<goods, threshold, callVars, searchVars>>

NextEnhanced ==
    \/ \E g \in goods : ScanFirstFamily(g)
    \/ \E g \in goods : ScanSecondFamily(g)
    \/ \E g \in goods : ScanNext(g)
    \/ Fallback
    \/ Turn
    \/ ReturnBundles
    \/ SecondCall
SpecEnhanced == InitEnhanced /\ [][NextEnhanced]_vars

(***************************************************************************)
(* Claims about Enhanced RWAV, checked under SpecEnhanced.                   *)
(***************************************************************************)
\* g is wanted by at least threshold * (number of members) members of family
WantedByThreshold(family, g) ==
    num_of_members_who_want(family, g) * threshold[2]
        >= threshold[1] * num_of_members(family)

\* the second call has returned: families[1] is the first call's families[2]
BothCallsReturned == call = 2 /\ pc = "done" /\ first_call.pc = "done"

\* each family holds after the second call what it held after the first
SameBundlesPerFamily ==
    /\ bundles[1] = first_call.bundles[2]
    /\ bundles[2] = first_call.bundles[1]

\* C5 as stated: for all families, goods and thresholds, each family receives
\* the same bundle whichever of the two is passed first.
C5_RoleSymmetry == BothCallsReturned => SameBundlesPerFamily

\* C5 amended: when the two calls return on the same good, and that good
\* reaches the threshold in only one of the two families, each family receives
\* the same bundle whichever of the two is passed first.
C5_SymmetricWhenOneFamilyReaches ==
    ( /\ BothCallsReturned
      /\ trigger # NoGood
      /\ first_call.trigger = trigger
      /\ ~ ( WantedByThreshold(families[1], trigger)
             /\ WantedByThreshold(families[2], trigger) ) )
    => SameBundlesPerFamily

C5_Witness ==
    /\ BothCallsReturned
    /\ trigger # NoGood
    /\ first_call.trigger = trigger
    /\ WantedByThreshold(families[1], trigger)
    /\ ~ WantedByThreshold(families[2], trigger)
    /\ families[2] # <<>>
    /\ Cardinality(goods) >= 2
    /\ SameBundlesPerFamily

\* the doctest run of allocate_using_enhanced_RWAV, first call
DocEnhancedRun ==
    /\ goods = DocEnhancedGoods
    /\ families = <<DocEnhancedFamily1, DocEnhancedFamily2>>
    /\ threshold = DocThreshold
    /\ call = 1

\* C6 as stated: with two families, if some good g is wanted by at least
\* threshold * (number of members) members of one family, the call returns
\* without playing a turn, that family holding exactly {g} and the other
\* family all the other goods; the doctest returns {y} and {v, w, x, z}.
C6_ThresholdShortcut ==
    /\ (\E g \in goods, i \in 1 .. 2 : WantedByThreshold(families[i], g))
         => /\ pc \in {"scan", "done"}
            /\ turn_index = 0
            /\ pc = "done" =>
                 \E g \in goods, i \in 1 .. 2 :
                     /\ WantedByThreshold(families[i], g)
                     /\ bundles[i] = {g}
                     /\ bundles[3 - i] = goods \ {g}
    /\ (DocEnhancedRun /\ pc = "done")
         => bundles = << {Gy}, {Gv, Gw, Gx, Gz} >>

num_of_poor_members(family, g, bundle, held) ==
    CardinalitySum(family,
        { i \in 1 .. Len(family) :
            value(family[i], PySet(g)) > 0 /\ value(family[i], bundle) = held })

\* mutant: the bound counts the members of the first family only, once
num_of_iterations_first_family == num_of_members(families[1])

num_of_iterations ==
    2 * (num_of_members(families[1]) + num_of_members(families[2]))

\* the goods, and the family passed twice, of the doctest of allocate_twothirds
DocTwothirdsGoods == { Gw, Gx, Gy, Gz }
DocTwothirdsFamily == << BinaryAgent({Gw, Gx}, 1), BinaryAgent({Gy, Gz}, 1) >>

InitTwothirds ==
    /\ IdleCall /\ IdleScan /\ IdleSwap
    /\ threshold = <<0, 1>>
    /\ \/ \E m \in 0 .. MaxSearchGoods, len \in 1 .. MaxNameLen, j \in 0 .. MaxRecords :
            /\ goods = GoodsOf(m, len)
            /\ \E f \in FamiliesOfSize(goods, j) : families = <<f, f>>
       \/ \E m \in 0 .. NumGoods :
            /\ goods = GoodsOf(m, 1)
            /\ families \in FamilyLists(goods, 2, MaxRecords)
       \/ /\ goods = DocTwothirdsGoods
          /\ families = <<DocTwothirdsFamily, DocTwothirdsFamily>>
    /\ pc = "for"
    /\ bundles = << {}, goods >>
    /\ iteration = 0
    /\ change = FALSE
    /\ todo = {}
    /\ remaining_goods = {}
    /\ turn_index = 0
    /\ family_index = 0
    /\ last_pick = NoPick

\* for iteration in range(num_of_iterations): the body starts
BeginIteration ==
    /\ pc = "for"
    /\ iteration < num_of_iterations
    /\ change' = FALSE
    /\ todo' = bundles[1]
    /\ pc' = "pass1"
    /\ UNCHANGED <<iteration, bundles, remaining_goods, turn_index, family_index, last_pick>>
    /\ UNCHANGED <<callVars, inputVars, scanVars, swapVars>>

\* mutant: the good is added to bundle 2 and stays in bundle 1
VisitFirstBundle_copies(g) ==
    /\ pc = "pass1"
    /\ g \in todo
    /\ todo' = todo \ {g}
    /\ LET poor_in_2 == num_of_poor_members(families[2], g, bundles[2], 0)
           poor_in_1 == num_of_poor_members(families[1], g, bundles[1], 1)
       IN  IF poor_in_2 > poor_in_1
           THEN /\ bundles' = << bundles[1], bundles[2] \cup {g} >>
                /\ change' = TRUE
           ELSE UNCHANGED <<bundles, change>>
    /\ UNCHANGED <<pc, iteration, remaining_goods, turn_index, family_index, last_pick>>
    /\ UNCHANGED <<callVars, inputVars, scanVars, swapVars>>

\* the body of "for g in list(bundles[0])" for the good g
VisitFirstBundle(g) ==
    /\ pc = "pass1"
    /\ g \in todo
    /\ todo' = todo \ {g}
    /\ LET poor_in_2 == num_of_poor_members(families[2], g, bundles[2], 0)
           poor_in_1 == num_of_poor_members(families[1], g, bundles[1], 1)
       IN  IF poor_in_2 > poor_in_1
           THEN /\ bundles' = << bundles[1] \ {g}, bundles[2] \cup {g} >>
                /\ change' = TRUE
           ELSE UNCHANGED <<bundles, change>>
    /\ UNCHANGED <<pc, iteration, remaining_goods, turn_index, family_index, last_pick>>
    /\ UNCHANGED <<callVars, inputVars, scanVars, swapVars>>

\* the first inner loop is over, the second starts on list(bundles[1])
BeginSecondPass ==
    /\ pc = "pass1"
    /\ todo = {}
    /\ todo' = bundles[2]
    /\ pc' = "pass2"
    /\ UNCHANGED <<iteration, change, bundles, remaining_goods, turn_index, family_index, last_pick>>
    /\ UNCHANGED <<callVars, inputVars, scanVars, swapVars>>

\* the body of "for g in list(bundles[1])" for the good g
VisitSecondBundle(g) ==
    /\ pc = "pass2"
    /\ g \in todo
    /\ todo' = todo \ {g}
    /\ LET poor_in_1 == num_of_poor_members(families[1], g, bundles[1], 0)
           poor_in_2 == num_of_poor_members(families[2], g, bundles[2], 1)
       IN  IF poor_in_1 > poor_in_2
           THEN /\ bundles' = << bundles[1] \cup {g}, bundles[2] \ {g} >>
                /\ change' = TRUE
           ELSE UNCHANGED <<bundles, change>>
    /\ UNCHANGED <<pc, iteration, remaining_goods, turn_index, family_index, last_pick>>
    /\ UNCHANGED <<callVars, inputVars, scanVars, swapVars>>

\* the end of the body: "if not change: break", else the next iteration
EndIteration ==
    /\ pc = "pass2"
    /\ todo = {}
    /\ IF change
       THEN iteration' = iteration + 1 /\ pc' = "for"
       ELSE iteration' = iteration /\ pc' = "done"
    /\ UNCHANGED <<change, todo, bundles, remaining_goods, turn_index, family_index, last_pick>>
    /\ UNCHANGED <<callVars, inputVars, scanVars, swapVars>>

\* range(num_of_iterations) is exhausted: return bundles
ExhaustIterations ==
    /\ pc = "for"
    /\ iteration >= num_of_iterations
    /\ pc' = "done"
    /\ UNCHANGED <<iteration, change, todo, bundles, remaining_goods, turn_index, family_index, last_pick>>
    /\ UNCHANGED <<callVars, inputVars, scanVars, swapVars>>

NextTwothirds ==
    \/ BeginIteration
    \/ \E g \in goods : VisitFirstBundle(g)
    \/ BeginSecondPass
    \/ \E g \in goods : VisitSecondBundle(g)
    \/ EndIteration
    \/ ExhaustIterations
SpecTwothirds == InitTwothirds /\ [][NextTwothirds]_vars

(***************************************************************************)
(* Claims about allocate_twothirds, checked under SpecTwothirds.             *)
(***************************************************************************)
IdenticalFamilies == families[1] = families[2]

\* the members of family, counted with cardinality, whose value for bundle
\* reaches their 1-of-best-2 target
SatisfiedMembers(family, bundle) ==
    CardinalitySum(family,
        { i \in 1 .. Len(family) : value(family[i], bundle) >= target_value(family[i]) })

TwoThirdsSatisfied(family, bundle) ==
    3 * SatisfiedMembers(family, bundle) >= 2 * num_of_members(family)

\* C11 as stated: for two families with identical members the returned
\* allocation satisfies, in each family, at least 2/3 of the members.
C11_TwoThirdsDemocraticFairness ==
    (pc = "done" /\ IdenticalFamilies) =>
        \A i \in 1 .. 2 : TwoThirdsSatisfied(families[i], bundles[i])

\* C12 as stated: for two families with identical members the loop never
\* exhausts its bound after an iteration that moved a good.
C12_ConvergesWithinBound ==
    IdenticalFamilies =>
        /\ ~ (pc = "for" /\ iteration >= num_of_iterations /\ change)
        /\ pc = "done" => ~ change

\* a run that converged after at least two iterations that moved goods
C12_Witness ==
    /\ IdenticalFamilies
    /\ pc = "done"
    /\ ~ change
    /\ iteration >= 2
    /\ iteration < num_of_iterations
    /\ bundles[1] # {}

\* the members of family who want g and hold exactly held desired goods of bundle
Wanters(family, g, bundle, held) ==
    CardinalitySum(family,
        { i \in 1 .. Len(family) :
            g \in family[i].desired_goods /\ value(family[i], bundle) = held })

Equilibrium ==
    /\ \A g \in bundles[1] :
          ~ (Wanters(families[2], g, bundles[2], 0) > Wanters(families[1], g, bundles[1], 1))
    /\ \A g \in bundles[2] :
          ~ (Wanters(families[1], g, bundles[1], 0) > Wanters(families[2], g, bundles[2], 1))

ReturnedByBreak == pc = "done" /\ iteration < num_of_iterations

\* C19 as stated: the call returns at the end of the first iteration that
\* moved no good, and the allocation it then returns is an equilibrium of
\* the move rule.
C19_ReturnsAtEquilibrium ==
    /\ (pc = "for" /\ iteration > 0) => change
    /\ ReturnedByBreak => (~ change /\ Equilibrium)

\* C20: the bundles start as (empty, goods), are disjoint and cover goods in
\* every state, and a step moves at most one good, from one bundle to the other.
C20_BundlesPartitionGoods ==
    [][ /\ bundles[1] \cap bundles[2] = {}
        /\ bundles[1] \cup bundles[2] = goods
        /\ (pc = "for" /\ iteration = 0) => bundles = << {}, goods >>
        /\ bundles'[1] \cap bundles'[2] = {}
        /\ bundles'[1] \cup bundles'[2] = goods
        /\ bundles' # bundles =>
             \E g \in goods :
                \/ bundles' = << bundles[1] \ {g}, bundles[2] \cup {g} >> /\ g \in bundles[1]
                \/ bundles' = << bundles[1] \cup {g}, bundles[2] \ {g} >> /\ g \in bundles[2]
      ]_vars

\* a returned allocation in which goods have moved to the first bundle
C20_Witness ==
    /\ pc = "done"
    /\ iteration >= 1
    /\ bundles[1] # {} /\ bundles[2] # {}
    /\ bundles[1] \cap bundles[2] = {}
    /\ bundles[1] \cup bundles[2] = goods

(***************************************************************************)
(* Agents (agents.py).  An agent is a record of the fields its class sets:   *)
(* a MonotoneAgent has map_bundle_to_value, an AdditiveAgent has             *)
(* map_good_to_value and desired_goods, a BinaryAgent has desired_goods.     *)
(* The generated valuations are non-negative and, for a MonotoneAgent,       *)
(* monotone, as the library assumes.                                         *)
(***************************************************************************)
AgentClass(a) ==
    IF "map_bundle_to_value" \in DOMAIN a THEN "MonotoneAgent"
    ELSE IF "map_good_to_value" \in DOMAIN a THEN "AdditiveAgent"
    ELSE "BinaryAgent"

\* MonotoneAgent(map_bundle_to_value): the empty bundle is given the value 0
MonotoneAgent(table) ==
    [map_bundle_to_value |->
        [b \in (DOMAIN table) \cup {{}} |-> IF b = {} THEN 0 ELSE table[b]],
     cardinality |-> 1]

\* AdditiveAgent(map_good_to_value)
AdditiveAgent(map) ==
    [map_good_to_value |-> map,
     desired_goods |-> { g \in DOMAIN map : map[g] > 0 },
     cardinality |-> 1]

RECURSIVE SumOfValues(_, _)
SumOfValues(map, S) ==
    IF S = {} THEN 0
    ELSE LET g == CHOOSE x \in S : TRUE
         IN  map[g] + SumOfValues(map, S \ {g})

\* MonotoneAgent.value raises ValueError for a bundle its table does not hold
value_raises(a, bundle) ==
    AgentClass(a) = "MonotoneAgent" /\ bundle \notin DOMAIN a.map_bundle_to_value

\* the value method of the agent's class
agent_value(a, bundle) ==
    CASE AgentClass(a) = "MonotoneAgent" -> a.map_bundle_to_value[bundle]
      [] AgentClass(a) = "AdditiveAgent" -> SumOfValues(a.map_good_to_value, bundle)
      [] OTHER -> value(a, bundle)

\* itertools.combinations(bundle, c), as sets
combinations(bundle, c) == { G \in SUBSET bundle : Cardinality(G) = c }

SetMin(S) == CHOOSE x \in S : \A y \in S : x <= y
SetMax(S) == CHOOSE x \in S : \A y \in S : x >= y

\* sorted(bundle, key = -value)[c:] : the bundle without its c best goods
RECURSIVE except_best(_, _, _)
except_best(map, bundle, c) ==
    IF c = 0 \/ bundle = {} THEN bundle
    ELSE LET g == CHOOSE x \in bundle : \A y \in bundle : map[x] >= map[y]
         IN  except_best(map, bundle \ {g}, c - 1)

\* sorted(bundle, key = value)[c:] : the bundle without its c worst goods
RECURSIVE except_worst(_, _, _)
except_worst(map, bundle, c) ==
    IF c = 0 \/ bundle = {} THEN bundle
    ELSE LET g == CHOOSE x \in bundle : \A y \in bundle : map[x] <= map[y]
         IN  except_worst(map, bundle \ {g}, c - 1)

\* the brute-force methods of Agent raise when a value they look up does
except_c_raises(a, bundle, c) ==
    /\ AgentClass(a) = "MonotoneAgent"
    /\ Cardinality(bundle) > c
    /\ \E G \in combinations(bundle, c) : value_raises(a, bundle \ G)

\* mutant: the Binary closed form does not subtract c
value_except_best_c_goods_keeps_all(a, bundle, c) ==
    IF Cardinality(bundle) <= c THEN 0
    ELSE CASE AgentClass(a) = "MonotoneAgent" ->
                SetMin({ agent_value(a, bundle \ G) : G \in combinations(bundle, c) })
           [] AgentClass(a) = "AdditiveAgent" ->
                SumOfValues(a.map_good_to_value, except_best(a.map_good_to_value, bundle, c))
           [] OTHER -> agent_value(a, bundle)

value_except_best_c_goods(a, bundle, c) ==
    IF Cardinality(bundle) <= c THEN 0
    ELSE CASE AgentClass(a) = "MonotoneAgent" ->
                SetMin({ agent_value(a, bundle \ G) : G \in combinations(bundle, c) })
           [] AgentClass(a) = "AdditiveAgent" ->
                SumOfValues(a.map_good_to_value, except_best(a.map_good_to_value, bundle, c))
           [] OTHER -> agent_value(a, bundle) - c

value_except_worst_c_goods(a, bundle, c) ==
    IF Cardinality(bundle) <= c THEN 0
    ELSE CASE AgentClass(a) = "MonotoneAgent" ->
                SetMax({ agent_value(a, bundle \ G) : G \in combinations(bundle, c) })
           [] AgentClass(a) = "AdditiveAgent" ->
                SumOfValues(a.map_good_to_value, except_worst(a.map_good_to_value, bundle, c))
           [] OTHER -> agent_value(a, bundle) - c

\* is_PROPc on an agent with desired_goods; c is not used
is_PROPc(a, own_bundle, num_of_agents, c) ==
    LET own_value == agent_value(a, own_bundle)
        total_except_best_c ==
            value_except_best_c_goods(a, a.desired_goods, num_of_agents - 1)
    IN  own_value * num_of_agents >= total_except_best_c

(***************************************************************************)
(* Calls of the methods of an agent on arbitrary arguments.                  *)
(***************************************************************************)
Universe == GoodsOf(NumGoods, 1)

\* the goods a generated MonotoneAgent's table covers: all but the last
TableGoods == GoodsOf(NumGoods - 1, 1)

MonotoneTables ==
    { t \in [(SUBSET TableGoods) \ {{}} -> 0 .. MaxValue] :
        \A b1, b2 \in DOMAIN t : b1 \subseteq b2 => t[b1] <= t[b2] }

\* the agents of the doctests of agents.py
DocMonotoneAgent ==
    MonotoneAgent([b \in {{Gx}, {Gy}, {Gx, Gy}} |->
                     IF b = {Gx} THEN 1 ELSE IF b = {Gy} THEN 2 ELSE 4])
DocAdditiveAgent ==
    AdditiveAgent([g \in {Gw, Gx, Gy, Gz} |->
                     IF g = Gx THEN 1 ELSE IF g = Gy THEN 2 ELSE IF g = Gz THEN 4 ELSE 0])

GeneratedAgents ==
    { MonotoneAgent(t) : t \in MonotoneTables }
      \cup { AdditiveAgent(map) : map \in [Universe -> 0 .. MaxValue] }
      \cup { BinaryAgent(d, 1) : d \in SUBSET Universe }

InitAgents ==
    /\ IdleRun /\ IdleScan /\ IdleSwap /\ IdleSearch
    /\ fn = "pending" /\ arg_r = 0 /\ arg_s = 0 /\ arg_k = 0
    /\ ret = Return(0)
    /\ \E c \in 0 .. MaxExcept, n \in 1 .. MaxAgents :
          \/ \E a \in GeneratedAgents, b \in SUBSET Universe :
                input = [agent |-> a, bundle |-> b, c |-> c, num_of_agents |-> n]
          \/ \E b \in SUBSET {Gx, Gy} :
                input = [agent |-> DocMonotoneAgent, bundle |-> b,
                         c |-> c, num_of_agents |-> n]
          \/ \E b \in SUBSET {Gw, Gx, Gy, Gz} :
                input = [agent |-> DocAdditiveAgent, bundle |-> b,
                         c |-> c, num_of_agents |-> n]

\* agent.value(bundle)
CallValue ==
    /\ fn = "pending"
    /\ fn' = "value"
    /\ ret' = IF value_raises(input.agent, input.bundle) THEN Raise("ValueError")
              ELSE Return(agent_value(input.agent, input.bundle))
    /\ UNCHANGED <<arg_r, arg_s, arg_k, input, inputVars, runVars, scanVars, swapVars, searchVars>>

\* agent.value_except_best_c_goods(bundle, c)
CallValueExceptBest ==
    /\ fn = "pending"
    /\ fn' = "value_except_best_c_goods"
    /\ ret' = IF except_c_raises(input.agent, input.bundle, input.c)
              THEN Raise("ValueError")
              ELSE Return(value_except_best_c_goods(input.agent, input.bundle, input.c))
    /\ UNCHANGED <<arg_r, arg_s, arg_k, input, inputVars, runVars, scanVars, swapVars, searchVars>>

\* agent.value_except_worst_c_goods(bundle, c)
CallValueExceptWorst ==
    /\ fn = "pending"
    /\ fn' = "value_except_worst_c_goods"
    /\ ret' = IF except_c_raises(input.agent, input.bundle, input.c)
              THEN Raise("ValueError")
              ELSE Return(value_except_worst_c_goods(input.agent, input.bundle, input.c))
    /\ UNCHANGED <<arg_r, arg_s, arg_k, input, inputVars, runVars, scanVars, swapVars, searchVars>>

\* agent.is_PROPc(bundle, num_of_agents, c); a MonotoneAgent has no desired_goods
CallIsPROPc ==
    /\ fn = "pending"
    /\ fn' = "is_PROPc"
    /\ ret' = IF value_raises(input.agent, input.bundle) THEN Raise("ValueError")
              ELSE IF AgentClass(input.agent) = "MonotoneAgent"
                   THEN Raise("AttributeError")
              ELSE Return(is_PROPc(input.agent, input.bundle, input.num_of_agents, input.c))
    /\ UNCHANGED <<arg_r, arg_s, arg_k, input, inputVars, runVars, scanVars, swapVars, searchVars>>

NextAgents == CallValue \/ CallValueExceptBest \/ CallValueExceptWorst \/ CallIsPROPc
SpecAgents == InitAgents /\ [][NextAgents]_vars

(***************************************************************************)
(* Claims about the methods of an agent, checked under SpecAgents.           *)
(***************************************************************************)
\* the call returned, on a bundle with more than c goods that the agent values
ReturnedOnLargeBundle(f) ==
    /\ fn = f
    /\ ret.err = "none"
    /\ ~ value_raises(input.agent, input.bundle)
    /\ Cardinality(input.bundle) > input.c

MinValueWithout(a, bundle, c) ==
    SetMin({ agent_value(a, bundle \ G) :
               G \in { H \in SUBSET bundle : Cardinality(H) <= c } })

\* C14 as stated: value_except_best_c_goods(bundle, c) is the minimum, over the
\* subsets G of the bundle with at most c goods, of value(bundle - G); it is 0
\* when |bundle| <= c, and never negative.
C14_ExceptBestIsTheMinimum ==
    ( /\ fn = "value_except_best_c_goods"
      /\ ret.err = "none"
      /\ \A b \in SUBSET input.bundle : ~ value_raises(input.agent, b) )
    => /\ ret.val = MinValueWithout(input.agent, input.bundle, input.c)
       /\ Cardinality(input.bundle) <= input.c => ret.val = 0
       /\ ret.val >= 0

\* C17 as stated: for an Additive or Binary agent, is_PROPc(own_bundle, k, c)
\* is True exactly when k * value(own_bundle) is at least the value of all the
\* agent's goods except its best c goods.
C17_PROPcExcludesBestC ==
    ( /\ fn = "is_PROPc"
      /\ AgentClass(input.agent) \in {"AdditiveAgent", "BinaryAgent"} )
    => /\ ret.err = "none"
       /\ ret.val = ( input.num_of_agents * agent_value(input.agent, input.bundle)
                        >= MinValueWithout(input.agent, input.agent.desired_goods, input.c) )

(***************************************************************************)
(* The partition enumerator (partitions.py).  A collection is a list, a      *)
(* partition a list of lists, and a generator is the list of what it yields. *)
(* collection[0] on an empty list raises IndexError.                         *)
(***************************************************************************)
RECURSIVE ConcatAll(_)
ConcatAll(lists) ==
    IF lists = <<>> THEN <<>> ELSE Head(lists) \o ConcatAll(Tail(lists))

\* the partitions made from smaller by inserting first into each of its subsets
insert_in_each_subset(first, smaller) ==
    [n \in 1 .. Len(smaller) |->
        SubSeq(smaller, 1, n - 1) \o << <<first>> \o smaller[n] >>
            \o SubSeq(smaller, n + 1, Len(smaller))]

\* list(partitions(collection)) for a non-empty collection
RECURSIVE partitions(_)
partitions(collection) ==
    IF Len(collection) = 1 THEN << <<collection>> >>
    ELSE LET first   == collection[1]
             smaller == partitions(Tail(collection))
         IN  ConcatAll([i \in 1 .. Len(smaller) |->
                 insert_in_each_subset(first, smaller[i])
                     \o << << <<first>> >> \o smaller[i] >>])

\* list(partitions_to_at_most_c(collection, c)) for a non-empty collection
partitions_to_at_most_c(collection, c) ==
    IF Len(collection) = 1 THEN << <<collection>> >>
    ELSE LET first   == collection[1]
             smaller == partitions(Tail(collection))
         IN  ConcatAll([i \in 1 .. Len(smaller) |->
                 insert_in_each_subset(first, smaller[i])
                     \o (IF Len(smaller[i]) < c
                         THEN << << <<first>> >> \o smaller[i] >>
                         ELSE <<>>)])

\* list(partitions_to_exactly_c(collection, c)) for a non-empty collection
partitions_to_exactly_c(collection, c) ==
    LET HasCParts(q) == Len(q) = c
    IN  SelectSeq(partitions_to_at_most_c(collection, c), HasCParts)

\* the duplicate-free lists over 1 .. MaxElements
Collections ==
    UNION { { s \in [1 .. n -> 1 .. MaxElements] :
                \A i, j \in 1 .. n : i # j => s[i] # s[j] } : n \in 0 .. MaxElements }

InitPartitions ==
    /\ IdleRun /\ IdleScan /\ IdleSwap /\ IdleSearch
    /\ fn = "pending" /\ arg_r = 0 /\ arg_s = 0 /\ arg_k = 0
    /\ ret = Return(<<>>)
    /\ \E coll \in Collections, c \in 1 .. MaxElements :
          input = [collection |-> coll, c |-> c]

\* list(partitions(collection))
CallPartitions ==
    /\ fn = "pending"
    /\ fn' = "partitions"
    /\ ret' = IF input.collection = <<>> THEN Raise("IndexError")
              ELSE Return(partitions(input.collection))
    /\ UNCHANGED <<arg_r, arg_s, arg_k, input, inputVars, runVars, scanVars, swapVars, searchVars>>

\* list(partitions_to_at_most_c(collection, c))
CallPartitionsToAtMostC ==
    /\ fn = "pending"
    /\ fn' = "partitions_to_at_most_c"
    /\ ret' = IF input.collection = <<>> THEN Raise("IndexError")
              ELSE Return(partitions_to_at_most_c(input.collection, input.c))
    /\ UNCHANGED <<arg_r, arg_s, arg_k, input, inputVars, runVars, scanVars, swapVars, searchVars>>

\* list(partitions_to_exactly_c(collection, c))
CallPartitionsToExactlyC ==
    /\ fn = "pending"
    /\ fn' = "partitions_to_exactly_c"
    /\ ret' = IF input.collection = <<>> THEN Raise("IndexError")
              ELSE Return(partitions_to_exactly_c(input.collection, input.c))
    /\ UNCHANGED <<arg_r, arg_s, arg_k, input, inputVars, runVars, scanVars, swapVars, searchVars>>

NextPartitions == CallPartitions \/ CallPartitionsToAtMostC \/ CallPartitionsToExactlyC
SpecPartitions == InitPartitions /\ [][NextPartitions]_vars

(***************************************************************************)
(* Claims about the partition enumerator, checked under SpecPartitions.      *)
(***************************************************************************)
Elements(list) == { list[i] : i \in 1 .. Len(list) }

\* a yielded partition as a set of sets
AsSetPartition(q) == { Elements(q[i]) : i \in 1 .. Len(q) }

\* the parts of q are non-empty and hold each element of S exactly once
IsPartitionOf(q, S) ==
    /\ \A i \in 1 .. Len(q) :
          /\ q[i] # <<>>
          /\ \A j, k \in 1 .. Len(q[i]) : j # k => q[i][j] # q[i][k]
    /\ \A i, j \in 1 .. Len(q) : i # j => Elements(q[i]) \cap Elements(q[j]) = {}
    /\ UNION AsSetPartition(q) = S

\* the set-partitions of S
SetPartitions(S) ==
    { P \in SUBSET ((SUBSET S) \ {{}}) :
        /\ UNION P = S
        /\ \A b1, b2 \in P : b1 # b2 => b1 \cap b2 = {} }

\* Stirling numbers of the second kind, and the Bell numbers
RECURSIVE Stirling(_, _)
Stirling(n, k) ==
    IF n = 0 THEN (IF k = 0 THEN 1 ELSE 0)
    ELSE IF k = 0 THEN 0
    ELSE k * Stirling(n - 1, k) + Stirling(n - 1, k - 1)

RECURSIVE BellUpTo(_, _)
BellUpTo(n, k) == IF k < 0 THEN 0 ELSE Stirling(n, k) + BellUpTo(n, k - 1)
Bell(n) == BellUpTo(n, n)

PairwiseDistinct(list) ==
    \A i, j \in 1 .. Len(list) :
        i # j => AsSetPartition(list[i]) # AsSetPartition(list[j])

\* C15 as stated: for every duplicate-free input of n elements, partitions
\* terminates and yields B(n) results, pairwise distinct as set-partitions,
\* each with non-empty, pairwise disjoint parts whose union is the input.
C15_PartitionsAreBellMany ==
    fn = "partitions" =>
        /\ ret.err = "none"
        /\ Len(ret.val) = Bell(Len(input.collection))
        /\ PairwiseDistinct(ret.val)
        /\ \A i \in 1 .. Len(ret.val) :
              IsPartitionOf(ret.val[i], Elements(input.collection))

\* C16 as stated: partitions_to_at_most_c(collection, c) yields exactly the
\* set-partitions of the collection with at most c parts, each exactly once.
C16_AtMostCParts ==
    fn = "partitions_to_at_most_c" =>
        /\ ret.err = "none"
        /\ \A i \in 1 .. Len(ret.val) : Len(ret.val[i]) <= input.c
        /\ PairwiseDistinct(ret.val)
        /\ { AsSetPartition(ret.val[i]) : i \in 1 .. Len(ret.val) }
              = { P \in SetPartitions(Elements(input.collection)) :
                    Cardinality(P) <= input.c }

==========================================================================
